---------------------------- MODULE Spec2Model ----------------------------
(***************************************************************************)
(* The three Streamlit dashboards over the delivery-challan CSV:           *)
(*   streamlit_app.py    dealer dashboard (dealer_stats, category share)   *)
(*   streamlit_app_2.py  dealer summary table (summary, customer types)    *)
(*   streamlit_app_3.py  product quantity timeline (filters, pivot, heat)  *)
(* Each script is a straight-line pipeline over one pandas DataFrame; a    *)
(* Streamlit rerun executes the script again with the widgets' values.     *)
(* Frames are sequences of row records; a missing cell is NaN / NaT.       *)
(***************************************************************************)
EXTENDS Integers, Sequences, FiniteSets, TLC

VARIABLES
    amount,                 \* classify_customer: its argument
    customer_type,          \* classify_customer: its result
    item_name,              \* a raw "Item Name" cell
    category,               \* the "Category" cell computed for it
    csv,                    \* the rows pd.read_csv returns
    pc,                     \* where the running script is
    raised,                 \* the exception that ended the run, "" when none
    df,                     \* the script's frame df
    selected_product_type,  \* app 3: the "Filter by Product Category" selectbox
    selected_customer_type, \* app 3: the "Filter by Customer Type" selectbox
    search_term,            \* app 3: the "Search Product Name" text, normalized
    filtered_df,            \* app 3
    pivot_qty,              \* app 3
    display_table,          \* app 3
    pivot_summary,          \* app 3: the totals row (the script's second "summary")
    heatmap_data,           \* app 3
    heatmaps,               \* app 3: the pivot drawn for each customer type
    dealer_stats,           \* app 1
    search,                 \* app 1: the "Search Dealer by Name" text, normalized
    filtered_dealers,       \* app 1
    category_share,         \* app 1: category_share of each dealer of the loop
    monthly_sales,          \* app 1: monthly_sales of each dealer of the loop
    monthly_totals,         \* app 1: monthly_totals of each dealer of the loop
    summary,                \* app 2
    selected_type,          \* app 2: the "Filter by Customer Type" selectbox
    selected_customer,      \* app 2: the "Search or Select Customer" selectbox
    filtered,               \* app 2
    total_row,              \* app 2: the row of "Totals for Filtered Results"
    type_summary            \* app 2

pureVars == << amount, customer_type, item_name, category >>

app3Vars == << selected_product_type, selected_customer_type, search_term,
               filtered_df, pivot_qty, display_table, pivot_summary,
               heatmap_data, heatmaps >>

app1Vars == << dealer_stats, search, filtered_dealers, category_share,
               monthly_sales, monthly_totals >>

app2Vars == << summary, selected_type, selected_customer, filtered, total_row,
               type_summary >>

vars == << pureVars, csv, pc, raised, df, app3Vars, app1Vars, app2Vars >>

-----------------------------------------------------------------------------
(* What the variables of the other scripts hold while one script runs *)

IdlePure ==
    /\ amount = 0 /\ customer_type = "pending"
    /\ item_name = "" /\ category = "pending"

Idle3 ==
    /\ selected_product_type = "All" /\ selected_customer_type = "All"
    /\ search_term = "" /\ filtered_df = << >>
    /\ pivot_qty = << >> /\ display_table = << >> /\ pivot_summary = << >>
    /\ heatmap_data = << >> /\ heatmaps = << >>

Idle1 ==
    /\ dealer_stats = << >> /\ search = "" /\ filtered_dealers = << >>
    /\ category_share = << >> /\ monthly_sales = << >> /\ monthly_totals = << >>

Idle2 ==
    /\ summary = << >> /\ selected_type = "All" /\ selected_customer = "All"
    /\ filtered = << >> /\ total_row = << >> /\ type_summary = << >>


-----------------------------------------------------------------------------
(* Bounds of the model *)

\* classify_customer is tried on every amount within MaxDelta of a threshold
MaxDelta == 7

-----------------------------------------------------------------------------
(* Missing values *)

\* a missing string cell (pandas reads an empty CSV cell, or the text NaN, as NaN)
NaN == "NaN"

-----------------------------------------------------------------------------
(* Strings.  TLC cannot index a string, so Spell gives the characters of     *)
(* every string the model handles; str.lower, str.strip and str.contains     *)
(* work on the characters.                                                    *)

Spell ==
    ("" :> <<>>)
    @@ (" A" :> <<" ", "A">>)
    @@ (" Sim" :> <<" ", "S", "i", "m">>)
    @@ (" a" :> <<" ", "a">>)
    @@ (" sim" :> <<" ", "s", "i", "m">>)
    @@ ("(" :> <<"(">>)
    @@ ("2023-12" :> <<"2", "0", "2", "3", "-", "1", "2">>)
    @@ ("2023-12-05" :> <<"2", "0", "2", "3", "-", "1", "2", "-", "0", "5">>)
    @@ ("2024-01" :> <<"2", "0", "2", "4", "-", "0", "1">>)
    @@ ("2024-01-05" :> <<"2", "0", "2", "4", "-", "0", "1", "-", "0", "5">>)
    @@ ("2024-02" :> <<"2", "0", "2", "4", "-", "0", "2">>)
    @@ ("2024-02-10" :> <<"2", "0", "2", "4", "-", "0", "2", "-", "1", "0">>)
    @@ ("A" :> <<"A">>)
    @@ ("B" :> <<"B">>)
    @@ ("Bio-Fertilizers" :> <<"B", "i", "o", "-", "F", "e", "r", "t", "i", "l", "i", "z", "e", "r", "s">>)
    @@ ("Bio-Stimulants" :> <<"B", "i", "o", "-", "S", "t", "i", "m", "u", "l", "a", "n", "t", "s">>)
    @@ ("Bronze" :> <<"B", "r", "o", "n", "z", "e">>)
    @@ ("C" :> <<"C">>)
    @@ ("Chelated Micronutrients" :> <<"C", "h", "e", "l", "a", "t", "e", "d", " ", "M", "i", "c", "r", "o", "n", "u", "t", "r", "i", "e", "n", "t", "s">>)
    @@ ("Copper" :> <<"C", "o", "p", "p", "e", "r">>)
    @@ ("Dec 23" :> <<"D", "e", "c", " ", "2", "3">>)
    @@ ("Feb 24" :> <<"F", "e", "b", " ", "2", "4">>)
    @@ ("Gold" :> <<"G", "o", "l", "d">>)
    @@ ("Jan 24" :> <<"J", "a", "n", " ", "2", "4">>)
    @@ ("Micronutrients" :> <<"M", "i", "c", "r", "o", "n", "u", "t", "r", "i", "e", "n", "t", "s">>)
    @@ ("NaT" :> <<"N", "a", "T">>)
    @@ ("Other Bulk Orders" :> <<"O", "t", "h", "e", "r", " ", "B", "u", "l", "k", " ", "O", "r", "d", "e", "r", "s">>)
    @@ ("Silver" :> <<"S", "i", "l", "v", "e", "r">>)
    @@ ("Sim" :> <<"S", "i", "m">>)
    @@ ("Simba" :> <<"S", "i", "m", "b", "a">>)
    @@ ("TBD" :> <<"T", "B", "D">>)
    @@ ("Uncategorized" :> <<"U", "n", "c", "a", "t", "e", "g", "o", "r", "i", "z", "e", "d">>)
    @@ ("Unknown Item" :> <<"U", "n", "k", "n", "o", "w", "n", " ", "I", "t", "e", "m">>)
    @@ ("Unknown Product" :> <<"U", "n", "k", "n", "o", "w", "n", " ", "P", "r", "o", "d", "u", "c", "t">>)
    @@ ("a" :> <<"a">>)
    @@ ("b" :> <<"b">>)
    @@ ("bingo 100 ml" :> <<"b", "i", "n", "g", "o", " ", "1", "0", "0", " ", "m", "l">>)
    @@ ("bingo 200 ml" :> <<"b", "i", "n", "g", "o", " ", "2", "0", "0", " ", "m", "l">>)
    @@ ("bingo 400 ml" :> <<"b", "i", "n", "g", "o", " ", "4", "0", "0", " ", "m", "l">>)
    @@ ("bio stimulant - f" :> <<"b", "i", "o", " ", "s", "t", "i", "m", "u", "l", "a", "n", "t", " ", "-", " ", "f">>)
    @@ ("bio stimulant - j" :> <<"b", "i", "o", " ", "s", "t", "i", "m", "u", "l", "a", "n", "t", " ", "-", " ", "j">>)
    @@ ("bio surakshak - rekha (psudomonas)" :> <<"b", "i", "o", " ", "s", "u", "r", "a", "k", "s", "h", "a", "k", " ", "-", " ", "r", "e", "k", "h", "a", " ", "(", "p", "s", "u", "d", "o", "m", "o", "n", "a", "s", ")">>)
    @@ ("bio surakshak - ryzia (metarhizium)" :> <<"b", "i", "o", " ", "s", "u", "r", "a", "k", "s", "h", "a", "k", " ", "-", " ", "r", "y", "z", "i", "a", " ", "(", "m", "e", "t", "a", "r", "h", "i", "z", "i", "u", "m", ")">>)
    @@ ("bio surakshak - tryka (trichoderma)" :> <<"b", "i", "o", " ", "s", "u", "r", "a", "k", "s", "h", "a", "k", " ", "-", " ", "t", "r", "y", "k", "a", " ", "(", "t", "r", "i", "c", "h", "o", "d", "e", "r", "m", "a", ")">>)
    @@ ("bio-fertilizers" :> <<"b", "i", "o", "-", "f", "e", "r", "t", "i", "l", "i", "z", "e", "r", "s">>)
    @@ ("bio-stimulants" :> <<"b", "i", "o", "-", "s", "t", "i", "m", "u", "l", "a", "n", "t", "s">>)
    @@ ("biomass briquette" :> <<"b", "i", "o", "m", "a", "s", "s", " ", "b", "r", "i", "q", "u", "e", "t", "t", "e">>)
    @@ ("boomer - 90 (100 ml)" :> <<"b", "o", "o", "m", "e", "r", " ", "-", " ", "9", "0", " ", "(", "1", "0", "0", " ", "m", "l", ")">>)
    @@ ("boomer - 90 (200 ml)" :> <<"b", "o", "o", "m", "e", "r", " ", "-", " ", "9", "0", " ", "(", "2", "0", "0", " ", "m", "l", ")">>)
    @@ ("boomer - 90 (400 ml)" :> <<"b", "o", "o", "m", "e", "r", " ", "-", " ", "9", "0", " ", "(", "4", "0", "0", " ", "m", "l", ")">>)
    @@ ("bronze" :> <<"b", "r", "o", "n", "z", "e">>)
    @@ ("c" :> <<"c">>)
    @@ ("calcimag" :> <<"c", "a", "l", "c", "i", "m", "a", "g">>)
    @@ ("captain (100 ml)" :> <<"c", "a", "p", "t", "a", "i", "n", " ", "(", "1", "0", "0", " ", "m", "l", ")">>)
    @@ ("chelated micronutrients" :> <<"c", "h", "e", "l", "a", "t", "e", "d", " ", "m", "i", "c", "r", "o", "n", "u", "t", "r", "i", "e", "n", "t", "s">>)
    @@ ("copper" :> <<"c", "o", "p", "p", "e", "r">>)
    @@ ("dec 23" :> <<"d", "e", "c", " ", "2", "3">>)
    @@ ("diamond kit 50kg" :> <<"d", "i", "a", "m", "o", "n", "d", " ", "k", "i", "t", " ", "5", "0", "k", "g">>)
    @@ ("dimond kit 50kg" :> <<"d", "i", "m", "o", "n", "d", " ", "k", "i", "t", " ", "5", "0", "k", "g">>)
    @@ ("feb 24" :> <<"f", "e", "b", " ", "2", "4">>)
    @@ ("ferrari (200 ml)" :> <<"f", "e", "r", "r", "a", "r", "i", " ", "(", "2", "0", "0", " ", "m", "l", ")">>)
    @@ ("ferrari (400 ml)" :> <<"f", "e", "r", "r", "a", "r", "i", " ", "(", "4", "0", "0", " ", "m", "l", ")">>)
    @@ ("ferrous sulphate (feso4) - 20 kg" :> <<"f", "e", "r", "r", "o", "u", "s", " ", "s", "u", "l", "p", "h", "a", "t", "e", " ", "(", "f", "e", "s", "o", "4", ")", " ", "-", " ", "2", "0", " ", "k", "g">>)
    @@ ("ferrous sulphate - feso4 (20 kg bag)" :> <<"f", "e", "r", "r", "o", "u", "s", " ", "s", "u", "l", "p", "h", "a", "t", "e", " ", "-", " ", "f", "e", "s", "o", "4", " ", "(", "2", "0", " ", "k", "g", " ", "b", "a", "g", ")">>)
    @@ ("flora - 95 (100 ml)" :> <<"f", "l", "o", "r", "a", " ", "-", " ", "9", "5", " ", "(", "1", "0", "0", " ", "m", "l", ")">>)
    @@ ("flora - 95 (200 ml)" :> <<"f", "l", "o", "r", "a", " ", "-", " ", "9", "5", " ", "(", "2", "0", "0", " ", "m", "l", ")">>)
    @@ ("flora - 95 (400 ml)" :> <<"f", "l", "o", "r", "a", " ", "-", " ", "9", "5", " ", "(", "4", "0", "0", " ", "m", "l", ")">>)
    @@ ("fountain 1 liter" :> <<"f", "o", "u", "n", "t", "a", "i", "n", " ", "1", " ", "l", "i", "t", "e", "r">>)
    @@ ("fountain 500 ml" :> <<"f", "o", "u", "n", "t", "a", "i", "n", " ", "5", "0", "0", " ", "m", "l">>)
    @@ ("gold" :> <<"g", "o", "l", "d">>)
    @@ ("iron man - eddha ferrous (1 kg)" :> <<"i", "r", "o", "n", " ", "m", "a", "n", " ", "-", " ", "e", "d", "d", "h", "a", " ", "f", "e", "r", "r", "o", "u", "s", " ", "(", "1", " ", "k", "g", ")">>)
    @@ ("iron man - eddha ferrous (500 gm)" :> <<"i", "r", "o", "n", " ", "m", "a", "n", " ", "-", " ", "e", "d", "d", "h", "a", " ", "f", "e", "r", "r", "o", "u", "s", " ", "(", "5", "0", "0", " ", "g", "m", ")">>)
    @@ ("jackpot kit" :> <<"j", "a", "c", "k", "p", "o", "t", " ", "k", "i", "t">>)
    @@ ("jan 24" :> <<"j", "a", "n", " ", "2", "4">>)
    @@ ("jeeto - 95 (100 ml)" :> <<"j", "e", "e", "t", "o", " ", "-", " ", "9", "5", " ", "(", "1", "0", "0", " ", "m", "l", ")">>)
    @@ ("jeeto - 95 (200 ml)" :> <<"j", "e", "e", "t", "o", " ", "-", " ", "9", "5", " ", "(", "2", "0", "0", " ", "m", "l", ")">>)
    @@ ("jeeto - 95 (400 ml)" :> <<"j", "e", "e", "t", "o", " ", "-", " ", "9", "5", " ", "(", "4", "0", "0", " ", "m", "l", ")">>)
    @@ ("magnesium sulphate (mgso4) - 20 kg" :> <<"m", "a", "g", "n", "e", "s", "i", "u", "m", " ", "s", "u", "l", "p", "h", "a", "t", "e", " ", "(", "m", "g", "s", "o", "4", ")", " ", "-", " ", "2", "0", " ", "k", "g">>)
    @@ ("mantra humic acid (1 kg)" :> <<"m", "a", "n", "t", "r", "a", " ", "h", "u", "m", "i", "c", " ", "a", "c", "i", "d", " ", "(", "1", " ", "k", "g", ")">>)
    @@ ("mantra humic acid (100 gm)" :> <<"m", "a", "n", "t", "r", "a", " ", "h", "u", "m", "i", "c", " ", "a", "c", "i", "d", " ", "(", "1", "0", "0", " ", "g", "m", ")">>)
    @@ ("mantra humic acid (250 gm)" :> <<"m", "a", "n", "t", "r", "a", " ", "h", "u", "m", "i", "c", " ", "a", "c", "i", "d", " ", "(", "2", "5", "0", " ", "g", "m", ")">>)
    @@ ("mantra humic acid (500 gm)" :> <<"m", "a", "n", "t", "r", "a", " ", "h", "u", "m", "i", "c", " ", "a", "c", "i", "d", " ", "(", "5", "0", "0", " ", "g", "m", ")">>)
    @@ ("micro man - fe (250 gm)" :> <<"m", "i", "c", "r", "o", " ", "m", "a", "n", " ", "-", " ", "f", "e", " ", "(", "2", "5", "0", " ", "g", "m", ")">>)
    @@ ("micro man - fe (500 gm)" :> <<"m", "i", "c", "r", "o", " ", "m", "a", "n", " ", "-", " ", "f", "e", " ", "(", "5", "0", "0", " ", "g", "m", ")">>)
    @@ ("micro man - pro (1 ltr)" :> <<"m", "i", "c", "r", "o", " ", "m", "a", "n", " ", "-", " ", "p", "r", "o", " ", "(", "1", " ", "l", "t", "r", ")">>)
    @@ ("micro man - pro (500 ml)" :> <<"m", "i", "c", "r", "o", " ", "m", "a", "n", " ", "-", " ", "p", "r", "o", " ", "(", "5", "0", "0", " ", "m", "l", ")">>)
    @@ ("micro man - zn (250 gm)" :> <<"m", "i", "c", "r", "o", " ", "m", "a", "n", " ", "-", " ", "z", "n", " ", "(", "2", "5", "0", " ", "g", "m", ")">>)
    @@ ("micro man - zn (500 gm)" :> <<"m", "i", "c", "r", "o", " ", "m", "a", "n", " ", "-", " ", "z", "n", " ", "(", "5", "0", "0", " ", "g", "m", ")">>)
    @@ ("micro man plus (250 gm)" :> <<"m", "i", "c", "r", "o", " ", "m", "a", "n", " ", "p", "l", "u", "s", " ", "(", "2", "5", "0", " ", "g", "m", ")">>)
    @@ ("micro man plus (500 gm)" :> <<"m", "i", "c", "r", "o", " ", "m", "a", "n", " ", "p", "l", "u", "s", " ", "(", "5", "0", "0", " ", "g", "m", ")">>)
    @@ ("micro man pro (250 ml)" :> <<"m", "i", "c", "r", "o", " ", "m", "a", "n", " ", "p", "r", "o", " ", "(", "2", "5", "0", " ", "m", "l", ")">>)
    @@ ("micromax kit (50 kg)" :> <<"m", "i", "c", "r", "o", "m", "a", "x", " ", "k", "i", "t", " ", "(", "5", "0", " ", "k", "g", ")">>)
    @@ ("micronutrients" :> <<"m", "i", "c", "r", "o", "n", "u", "t", "r", "i", "e", "n", "t", "s">>)
    @@ ("nandi choona" :> <<"n", "a", "n", "d", "i", " ", "c", "h", "o", "o", "n", "a">>)
    @@ ("nat" :> <<"n", "a", "t">>)
    @@ ("nutrisac fe  - 20 kg" :> <<"n", "u", "t", "r", "i", "s", "a", "c", " ", "f", "e", " ", " ", "-", " ", "2", "0", " ", "k", "g">>)
    @@ ("nutrisac fe - 10 kg" :> <<"n", "u", "t", "r", "i", "s", "a", "c", " ", "f", "e", " ", "-", " ", "1", "0", " ", "k", "g">>)
    @@ ("nutrisac kit - (10 kg)" :> <<"n", "u", "t", "r", "i", "s", "a", "c", " ", "k", "i", "t", " ", "-", " ", "(", "1", "0", " ", "k", "g", ")">>)
    @@ ("nutrisac kit - (25 kg)" :> <<"n", "u", "t", "r", "i", "s", "a", "c", " ", "k", "i", "t", " ", "-", " ", "(", "2", "5", " ", "k", "g", ")">>)
    @@ ("nutrisac kit - (50 kg)" :> <<"n", "u", "t", "r", "i", "s", "a", "c", " ", "k", "i", "t", " ", "-", " ", "(", "5", "0", " ", "k", "g", ")">>)
    @@ ("nutrisac mg - 10 kg" :> <<"n", "u", "t", "r", "i", "s", "a", "c", " ", "m", "g", " ", "-", " ", "1", "0", " ", "k", "g">>)
    @@ ("nutrisac mg -20kg" :> <<"n", "u", "t", "r", "i", "s", "a", "c", " ", "m", "g", " ", "-", "2", "0", "k", "g">>)
    @@ ("orient kit - (50 kg)" :> <<"o", "r", "i", "e", "n", "t", " ", "k", "i", "t", " ", "-", " ", "(", "5", "0", " ", "k", "g", ")">>)
    @@ ("orient kit - (53 kg)" :> <<"o", "r", "i", "e", "n", "t", " ", "k", "i", "t", " ", "-", " ", "(", "5", "3", " ", "k", "g", ")">>)
    @@ ("other bulk orders" :> <<"o", "t", "h", "e", "r", " ", "b", "u", "l", "k", " ", "o", "r", "d", "e", "r", "s">>)
    @@ ("ozone power (10 kg bucket)" :> <<"o", "z", "o", "n", "e", " ", "p", "o", "w", "e", "r", " ", "(", "1", "0", " ", "k", "g", " ", "b", "u", "c", "k", "e", "t", ")">>)
    @@ ("peek sanjivani - consortia" :> <<"p", "e", "e", "k", " ", "s", "a", "n", "j", "i", "v", "a", "n", "i", " ", "-", " ", "c", "o", "n", "s", "o", "r", "t", "i", "a">>)
    @@ ("peek sanjivani - k (kmb)" :> <<"p", "e", "e", "k", " ", "s", "a", "n", "j", "i", "v", "a", "n", "i", " ", "-", " ", "k", " ", "(", "k", "m", "b", ")">>)
    @@ ("peek sanjivani - n (azotobacter)" :> <<"p", "e", "e", "k", " ", "s", "a", "n", "j", "i", "v", "a", "n", "i", " ", "-", " ", "n", " ", "(", "a", "z", "o", "t", "o", "b", "a", "c", "t", "e", "r", ")">>)
    @@ ("peek sanjivani - p (azotobacter)" :> <<"p", "e", "e", "k", " ", "s", "a", "n", "j", "i", "v", "a", "n", "i", " ", "-", " ", "p", " ", "(", "a", "z", "o", "t", "o", "b", "a", "c", "t", "e", "r", ")">>)
    @@ ("peek sanjivani - p (psb)" :> <<"p", "e", "e", "k", " ", "s", "a", "n", "j", "i", "v", "a", "n", "i", " ", "-", " ", "p", " ", "(", "p", "s", "b", ")">>)
    @@ ("pickup - 99 (100 ml)" :> <<"p", "i", "c", "k", "u", "p", " ", "-", " ", "9", "9", " ", "(", "1", "0", "0", " ", "m", "l", ")">>)
    @@ ("pickup - 99 (200 ml)" :> <<"p", "i", "c", "k", "u", "p", " ", "-", " ", "9", "9", " ", "(", "2", "0", "0", " ", "m", "l", ")">>)
    @@ ("pickup - 99 (400 ml)" :> <<"p", "i", "c", "k", "u", "p", " ", "-", " ", "9", "9", " ", "(", "4", "0", "0", " ", "m", "l", ")">>)
    @@ ("rainbow 100ml" :> <<"r", "a", "i", "n", "b", "o", "w", " ", "1", "0", "0", "m", "l">>)
    @@ ("rainbow 200" :> <<"r", "a", "i", "n", "b", "o", "w", " ", "2", "0", "0">>)
    @@ ("rainbow 400" :> <<"r", "a", "i", "n", "b", "o", "w", " ", "4", "0", "0">>)
    @@ ("rhizo-vishwa (200 gm)" :> <<"r", "h", "i", "z", "o", "-", "v", "i", "s", "h", "w", "a", " ", "(", "2", "0", "0", " ", "g", "m", ")">>)
    @@ ("sanjivani granules" :> <<"s", "a", "n", "j", "i", "v", "a", "n", "i", " ", "g", "r", "a", "n", "u", "l", "e", "s">>)
    @@ ("sanjivani kit (5 ltrs)" :> <<"s", "a", "n", "j", "i", "v", "a", "n", "i", " ", "k", "i", "t", " ", "(", "5", " ", "l", "t", "r", "s", ")">>)
    @@ ("silver" :> <<"s", "i", "l", "v", "e", "r">>)
    @@ ("sim" :> <<"s", "i", "m">>)
    @@ ("simba" :> <<"s", "i", "m", "b", "a">>)
    @@ ("simba " :> <<"s", "i", "m", "b", "a", " ">>)
    @@ ("tbd" :> <<"t", "b", "d">>)
    @@ ("titanic kit - (25 kg)" :> <<"t", "i", "t", "a", "n", "i", "c", " ", "k", "i", "t", " ", "-", " ", "(", "2", "5", " ", "k", "g", ")">>)
    @@ ("turma max" :> <<"t", "u", "r", "m", "a", " ", "m", "a", "x">>)
    @@ ("uncategorized" :> <<"u", "n", "c", "a", "t", "e", "g", "o", "r", "i", "z", "e", "d">>)
    @@ ("unknown item" :> <<"u", "n", "k", "n", "o", "w", "n", " ", "i", "t", "e", "m">>)
    @@ ("unknown product" :> <<"u", "n", "k", "n", "o", "w", "n", " ", "p", "r", "o", "d", "u", "c", "t">>)
    @@ ("zumba" :> <<"z", "u", "m", "b", "a">>)
    @@ ("zumbaa" :> <<"z", "u", "m", "b", "a", "a">>)

\* the code point of each character (Python compares strings by code point)
Ord ==
    (" " :> 32) @@ ("(" :> 40) @@ (")" :> 41) @@ ("," :> 44) @@ ("-" :> 45)
    @@ ("." :> 46) @@ ("0" :> 48) @@ ("1" :> 49) @@ ("2" :> 50) @@ ("3" :> 51)
    @@ ("4" :> 52) @@ ("5" :> 53) @@ ("6" :> 54) @@ ("7" :> 55) @@ ("8" :> 56)
    @@ ("9" :> 57) @@ ("A" :> 65) @@ ("B" :> 66) @@ ("C" :> 67) @@ ("D" :> 68)
    @@ ("E" :> 69) @@ ("F" :> 70) @@ ("G" :> 71) @@ ("H" :> 72) @@ ("I" :> 73)
    @@ ("J" :> 74) @@ ("K" :> 75) @@ ("L" :> 76) @@ ("M" :> 77) @@ ("N" :> 78)
    @@ ("O" :> 79) @@ ("P" :> 80) @@ ("Q" :> 81) @@ ("R" :> 82) @@ ("S" :> 83)
    @@ ("T" :> 84) @@ ("U" :> 85) @@ ("V" :> 86) @@ ("W" :> 87) @@ ("X" :> 88)
    @@ ("Y" :> 89) @@ ("Z" :> 90) @@ ("a" :> 97) @@ ("b" :> 98) @@ ("c" :> 99)
    @@ ("d" :> 100) @@ ("e" :> 101) @@ ("f" :> 102) @@ ("g" :> 103) @@ ("h" :> 104)
    @@ ("i" :> 105) @@ ("j" :> 106) @@ ("k" :> 107) @@ ("l" :> 108) @@ ("m" :> 109)
    @@ ("n" :> 110) @@ ("o" :> 111) @@ ("p" :> 112) @@ ("q" :> 113) @@ ("r" :> 114)
    @@ ("s" :> 115) @@ ("t" :> 116) @@ ("u" :> 117) @@ ("v" :> 118) @@ ("w" :> 119)
    @@ ("x" :> 120) @@ ("y" :> 121) @@ ("z" :> 122)

Strings == DOMAIN Spell

\* the string spelled by the characters q
Unspell(q) == CHOOSE t \in Strings : Spell[t] = q

UpperToLower ==
    ("A" :> "a") @@ ("B" :> "b") @@ ("C" :> "c") @@ ("D" :> "d") @@ ("E" :> "e")
    @@ ("F" :> "f") @@ ("G" :> "g") @@ ("H" :> "h") @@ ("I" :> "i") @@ ("J" :> "j")
    @@ ("K" :> "k") @@ ("L" :> "l") @@ ("M" :> "m") @@ ("N" :> "n") @@ ("O" :> "o")
    @@ ("P" :> "p") @@ ("Q" :> "q") @@ ("R" :> "r") @@ ("S" :> "s") @@ ("T" :> "t")
    @@ ("U" :> "u") @@ ("V" :> "v") @@ ("W" :> "w") @@ ("X" :> "x") @@ ("Y" :> "y")
    @@ ("Z" :> "z")

LowerChar(ch) == IF ch \in DOMAIN UpperToLower THEN UpperToLower[ch] ELSE ch

LowerChars(q) == [i \in 1..Len(q) |-> LowerChar(q[i])]

\* the characters of q without leading and trailing blanks
StripChars(q) ==
    LET keep == {i \in 1..Len(q) : q[i] # " "}
        lo == CHOOSE i \in keep : \A j \in keep : i <= j
        hi == CHOOSE i \in keep : \A j \in keep : j <= i
    IN  IF keep = {} THEN << >> ELSE SubSeq(q, lo, hi)

\* Python str.lower()
py_lower(s) == Unspell(LowerChars(Spell[s]))

\* Python str.strip()
py_strip(s) == Unspell(StripChars(Spell[s]))

\* Series.str.lower(): a missing cell stays missing
str_lower(s) == IF s = NaN THEN NaN ELSE py_lower(s)

\* Series.str.strip(): a missing cell stays missing
str_strip(s) == IF s = NaN THEN NaN ELSE py_strip(s)

-----------------------------------------------------------------------------
(* Product category mapping *)

category_keys ==
    << "Bio-Fertilizers", "Micronutrients", "Chelated Micronutrients", "Bio-Stimulants", "Other Bulk Orders" >>

category_map ==
    ("Bio-Fertilizers" :> <<
       "peek sanjivani - consortia", "bio surakshak - tryka (trichoderma)",
       "peek sanjivani - p (psb)", "sanjivani kit (5 ltrs)", "peek sanjivani - k (kmb)",
       "peek sanjivani - p (azotobacter)", "bio surakshak - ryzia (metarhizium)",
       "bio surakshak - rekha (psudomonas)", "peek sanjivani - n (azotobacter)",
       "sanjivani granules", "rhizo-vishwa (200 gm)" >>)
    @@ ("Micronutrients" :> <<
       "nutrisac kit - (50 kg)", "nutrisac kit - (25 kg)", "nutrisac kit - (10 kg)",
       "dimond kit 50kg", "micromax kit (50 kg)", "ferrous sulphate (feso4) - 20 kg",
       "nutrisac mg -20kg", "nutrisac fe - 10 kg", "nutrisac mg - 10 kg",
       "nutrisac fe  - 20 kg", "jackpot kit", "orient kit - (50 kg)",
       "magnesium sulphate (mgso4) - 20 kg", "orient kit - (53 kg)", "diamond kit 50kg",
       "ferrous sulphate - feso4 (20 kg bag)" >>)
    @@ ("Chelated Micronutrients" :> <<
       "iron man - eddha ferrous (500 gm)", "micro man - fe (500 gm)",
       "micro man - fe (250 gm)", "micro man - zn (250 gm)", "micro man - zn (500 gm)",
       "micro man - pro (1 ltr)", "micro man - pro (500 ml)", "micro man pro (250 ml)",
       "iron man - eddha ferrous (1 kg)" >>)
    @@ ("Bio-Stimulants" :> <<
       "titanic kit - (25 kg)", "jeeto - 95 (100 ml)", "jeeto - 95 (200 ml)",
       "flora - 95 (100 ml)", "flora - 95 (200 ml)", "mantra humic acid (500 gm)",
       "mantra humic acid (250 gm)", "mantra humic acid (1 kg)", "jeeto - 95 (400 ml)",
       "pickup - 99 (100 ml)", "pickup - 99 (200 ml)", "pickup - 99 (400 ml)",
       "micro man plus (250 gm)", "micro man plus (500 gm)", "flora - 95 (400 ml)",
       "boomer - 90 (100 ml)", "boomer - 90 (200 ml)", "boomer - 90 (400 ml)",
       "bingo 100 ml", "bingo 200 ml", "bingo 400 ml", "rainbow 200", "rainbow 400",
       "rainbow 100ml", "mantra humic acid (100 gm)", "zumbaa", "turma max", "simba",
       "captain (100 ml)", "ferrari (200 ml)", "ferrari (400 ml)", "bio stimulant - f",
       "bio stimulant - j", "ozone power (10 kg bucket)", "fountain 1 liter",
       "fountain 500 ml" >>)
    @@ ("Other Bulk Orders" :> <<
       "biomass briquette", "nandi choona", "calcimag" >>)


Uncategorized == "Uncategorized"

\* the (item, cat) pairs in the order the dict comprehension visits them
CategoryPairs ==
    LET RECURSIVE Flatten(_)
        Flatten(k) ==
            IF k = 0 THEN << >>
            ELSE Flatten(k - 1) \o
                 [i \in 1..Len(category_map[category_keys[k]]) |->
                    [item |-> category_map[category_keys[k]][i], cat |-> category_keys[k]]]
    IN  Flatten(Len(category_keys))

\* item_to_category = {item: cat for cat, items in ... for item in items}:
\* a later pair overwrites an earlier one with the same item
item_to_category ==
    LET pairs == CategoryPairs
        keys == {pairs[i].item : i \in 1..Len(pairs)}
        Last(name) == CHOOSE i \in 1..Len(pairs) :
                        /\ pairs[i].item = name
                        /\ \A j \in 1..Len(pairs) : pairs[j].item = name => j <= i
    IN  [name \in keys |-> pairs[Last(name)].cat]

\* Series.map(dict): a key the dict lacks (or a missing cell) gives NaN
map_item_to_category(name) ==
    IF name \in DOMAIN item_to_category THEN item_to_category[name] ELSE NaN

\* Series.fillna(value)
fillna(v, value) == IF v = NaN THEN value ELSE v

\* the mutation: the default category is not filled in
ProductCategory_nofill(name) == map_item_to_category(name)

\* df["Item Name"].map(item_to_category).fillna("Uncategorized")
ProductCategory(name) == fillna(map_item_to_category(name), Uncategorized)

-----------------------------------------------------------------------------
(* Customer type classification *)

GoldThreshold == 1000000
SilverThreshold == 500000
BronzeThreshold == 100000

\* the mutation: the thresholds are inclusive
classify_customer_inclusive(amt) ==
    IF amt >= GoldThreshold THEN "Gold"
    ELSE IF amt >= SilverThreshold THEN "Silver"
    ELSE IF amt >= BronzeThreshold THEN "Bronze"
    ELSE "Copper"

\* def classify_customer(amount)
classify_customer(amt) ==
    IF amt > GoldThreshold THEN "Gold"
    ELSE IF amt > SilverThreshold THEN "Silver"
    ELSE IF amt > BronzeThreshold THEN "Bronze"
    ELSE "Copper"

Tiers == {"Gold", "Silver", "Bronze", "Copper"}

-----------------------------------------------------------------------------
(* Comparing and sorting strings *)

\* p < q for two character sequences, by code point
CharsLess(p, q) ==
    \E k \in 1..(Len(p) + 1) :
        /\ k <= Len(q)
        /\ \A i \in 1..(k - 1) : p[i] = q[i]
        /\ (k = Len(p) + 1 \/ Ord[p[k]] < Ord[q[k]])

StrLess(s, t) == CharsLess(Spell[s], Spell[t])

\* sorted(S) for a set of strings: the k-th has k - 1 strings before it
SortStrings(S) ==
    [k \in 1..Cardinality(S) |->
        CHOOSE x \in S : Cardinality({y \in S : StrLess(y, x)}) = k - 1]

RECURSIVE SumInts(_)
SumInts(q) == IF q = << >> THEN 0 ELSE q[1] + SumInts(Tail(q))

\* the values of one column of a frame
Col(frame, c) == [i \in 1..Len(frame) |-> frame[i][c]]

Values(frame, c) == {frame[i][c] : i \in 1..Len(frame)}

\* Series.sum() of a numeric column
ColSum(frame, c) == SumInts(Col(frame, c))

\* the rows whose column c holds v
RowsWith(frame, c, v) == SelectSeq(frame, LAMBDA r : r[c] = v)

\* the keys of groupby(c): a row whose key is missing is in no group
GroupKeys(frame, c) == Values(frame, c) \ {NaN}

\* a column pandas read as float64 because every cell is empty has no .str
HasNoStr(frame, c) == Len(frame) > 0 /\ Values(frame, c) = {NaN}

-----------------------------------------------------------------------------
(* Dates *)

NaT == [year |-> 0, month |-> 0, day |-> 0]

\* what parsing gives for a text that is no date
NotADate == [year |-> 0 - 1, month |-> 0, day |-> 0]

IsDigit(ch) == Ord[ch] >= Ord["0"] /\ Ord[ch] <= Ord["9"]

DigitVal(ch) == Ord[ch] - Ord["0"]

DigitChar == << "0", "1", "2", "3", "4", "5", "6", "7", "8", "9" >>

\* the date a YYYY-MM-DD text names
ParseDate(q) ==
    IF /\ Len(q) = 10
       /\ q[5] = "-" /\ q[8] = "-"
       /\ \A i \in {1, 2, 3, 4, 6, 7, 9, 10} : IsDigit(q[i])
    THEN LET y == 1000 * DigitVal(q[1]) + 100 * DigitVal(q[2])
                  + 10 * DigitVal(q[3]) + DigitVal(q[4])
             mo == 10 * DigitVal(q[6]) + DigitVal(q[7])
             d == 10 * DigitVal(q[9]) + DigitVal(q[10])
         IN  IF mo \in 1..12 /\ d \in 1..31
             THEN [year |-> y, month |-> mo, day |-> d]
             ELSE NotADate
    ELSE NotADate

\* pd.to_datetime(cell): a missing cell is NaT, a text that is no date raises
to_datetime(cell) == IF cell = NaN THEN NaT ELSE ParseDate(Spell[cell])

\* pd.to_datetime(cell, errors='coerce'): a text that is no date is NaT
to_datetime_coerce(cell) ==
    IF to_datetime(cell) = NotADate THEN NaT ELSE to_datetime(cell)

MonthAbbr ==
    << <<"J", "a", "n">>, <<"F", "e", "b">>, <<"M", "a", "r">>, <<"A", "p", "r">>,
       <<"M", "a", "y">>, <<"J", "u", "n">>, <<"J", "u", "l">>, <<"A", "u", "g">>,
       <<"S", "e", "p">>, <<"O", "c", "t">>, <<"N", "o", "v">>, <<"D", "e", "c">> >>

TwoDigits(n) == << DigitChar[((n \div 10) % 10) + 1], DigitChar[(n % 10) + 1] >>

\* Series.dt.strftime("%b %y"): NaT gives a missing cell
strftime_b_y(ts) ==
    IF ts = NaT THEN NaN
    ELSE Unspell(MonthAbbr[ts.month] \o << " " >> \o TwoDigits(ts.year % 100))

\* pd.to_datetime(label, format="%b %y"): the first of the month; %y 69..99 is 19xx
strptime_b_y(label) ==
    LET q == Spell[label]
        mo == CHOOSE k \in 1..12 : MonthAbbr[k] = SubSeq(q, 1, 3)
        yy == 10 * DigitVal(q[5]) + DigitVal(q[6])
    IN  [year |-> IF yy < 69 THEN 2000 + yy ELSE 1900 + yy, month |-> mo, day |-> 1]

\* Series.dt.to_period('M').astype(str): YYYY-MM, and "NaT" for NaT
period_M_str(ts) ==
    IF ts = NaT THEN "NaT"
    ELSE Unspell(TwoDigits(ts.year \div 100) \o TwoDigits(ts.year % 100)
                 \o << "-" >> \o TwoDigits(ts.month))

DateLess(a, b) ==
    \/ a.year < b.year
    \/ a.year = b.year /\ a.month < b.month
    \/ a.year = b.year /\ a.month = b.month /\ a.day < b.day

-----------------------------------------------------------------------------
(* Regular expressions.  Series.str.contains(pat) takes pat as a regular      *)
(* expression (regex=True is the default).  The patterns of the model are      *)
(* made of letters, digits, blanks, "-", ".", "(" and ")": a parenthesis       *)
(* opens or closes a group, "." matches any character, the rest is literal.    *)

Count(q, ch) == Cardinality({i \in 1..Len(q) : q[i] = ch})

\* re.compile(pat) succeeds: every ")" closes a "(" and every "(" is closed
RegexCompiles(pat) ==
    /\ \A k \in 1..Len(pat) :
          Count(SubSeq(pat, 1, k), ")") <= Count(SubSeq(pat, 1, k), "(")
    /\ Count(pat, "(") = Count(pat, ")")

\* the pattern's atoms, one per character it consumes
RegexAtoms(pat) == SelectSeq(pat, LAMBDA ch : ch \notin {"(", ")"})

AtomMatches(atom, ch, ignorecase) ==
    \/ atom = "."
    \/ IF ignorecase THEN LowerChar(atom) = LowerChar(ch) ELSE atom = ch

\* re.search(pat, text) finds a match
re_search(pat, text, ignorecase) ==
    LET atoms == RegexAtoms(pat)
    IN  \E off \in 0..(Len(text) - Len(atoms)) :
            \A i \in 1..Len(atoms) : AtomMatches(atoms[i], text[off + i], ignorecase)

\* Series.str.contains(pat, case=False, na=False), one cell
str_contains_nocase(cell, pat) ==
    IF cell = NaN THEN FALSE ELSE re_search(Spell[pat], Spell[cell], TRUE)

\* Series.str.contains(pat), one cell that is not missing
str_contains(cell, pat) == re_search(Spell[pat], Spell[cell], FALSE)

-----------------------------------------------------------------------------
(* The CSV file: "Delivery_Challan (4).csv" as pd.read_csv returns it *)

\* the file holds at most MaxRows of the rows below
MaxRows == 3

CsvRow(challan, date, customer, item, qty, total) ==
    [DeliveryChallanNumber |-> challan, ChallanDate |-> date,
     CustomerName |-> customer, ItemName |-> item,
     QuantityOrdered |-> qty, ItemTotal |-> total]

Catalogue ==
    << CsvRow(1, "2023-12-05", " A", "Simba", 2, 600000),
       CsvRow(2, "2024-01-05", "A", "captain (100 ml)", 1, 500000),
       CsvRow(1, "2024-02-10", "B", "calcimag", 3, 600000),
       CsvRow(3, "TBD", "B", "simba ", 4, 0),
       CsvRow(4, "2024-01-05", NaN, "Simba", 5, 100000),
       CsvRow(5, NaN, "C", NaN, 1, 0),
       CsvRow(6, "2024-02-10", "C", "zumba", 2, 100001) >>

\* the rows of the catalogue picked by the index set S, in file order
RowsAt(S) ==
    LET RECURSIVE Pick(_)
        Pick(k) == IF k = 0 THEN << >>
                   ELSE IF k \in S THEN Append(Pick(k - 1), Catalogue[k])
                   ELSE Pick(k - 1)
    IN  Pick(Len(Catalogue))

Datasets ==
    {RowsAt(S) : S \in {T \in SUBSET (1..Len(Catalogue)) : Cardinality(T) <= MaxRows}}

-----------------------------------------------------------------------------
(* The two classifiers on their own *)

Pending == "pending"

TierInputs ==
    {t + d : t \in {0, BronzeThreshold, SilverThreshold, GoldThreshold},
             d \in (0 - MaxDelta)..MaxDelta}

RawItemNames == Strings \cup {NaN}

InitPure ==
    /\ amount \in TierInputs
    /\ customer_type = Pending
    /\ item_name \in RawItemNames
    /\ category = Pending
    /\ csv = << >> /\ pc = "pure" /\ raised = "" /\ df = << >>
    /\ Idle3 /\ Idle1 /\ Idle2

\* customer_summary["Item Total"].apply(classify_customer), one amount
ClassifyAmount ==
    /\ customer_type = Pending
    /\ customer_type' = classify_customer(amount)
    /\ UNCHANGED << amount, item_name, category, csv, pc, raised, df, app3Vars,
                    app1Vars, app2Vars >>

\* df['Item Name'].str.lower(), then the category lookup, one cell
ClassifyItem ==
    /\ category = Pending
    /\ item_name' = str_lower(item_name)
    /\ category' = ProductCategory(str_lower(item_name))
    /\ UNCHANGED << amount, customer_type, csv, pc, raised, df, app3Vars,
                    app1Vars, app2Vars >>

NextPure == ClassifyAmount \/ ClassifyItem

SpecPure == InitPure /\ [][NextPure]_vars

-----------------------------------------------------------------------------
(* streamlit_app_3.py: the transaction table *)

All == "All"

TableRow3(r, cat, type, month) ==
    [DeliveryChallanNumber |-> r.DeliveryChallanNumber, ChallanDate |-> r.ChallanDate,
     CustomerName |-> r.CustomerName, ItemName |-> r.ItemName,
     QuantityOrdered |-> r.QuantityOrdered, ItemTotal |-> r.ItemTotal,
     ProductCategory |-> cat, CustomerType |-> type, Month |-> month]

\* lines 7-9: lower-case the item, trim the customer, parse the date or give NaT
Normalize3(raw) ==
    [i \in 1..Len(raw) |->
        [raw[i] EXCEPT !.ItemName = str_lower(@),
                       !.CustomerName = str_strip(@),
                       !.ChallanDate = to_datetime_coerce(@)]]

\* lines 7-8 raise when a name column holds no string at all
LoadRaises3(raw) == HasNoStr(raw, "ItemName") \/ HasNoStr(raw, "CustomerName")

\* df.groupby("Customer Name")["Item Total"].sum().reset_index(), with
\* "Customer Type" added: one row per customer name, in sorted order
customer_summary(frame) ==
    LET names == SortStrings(GroupKeys(frame, "CustomerName"))
        total(k) == ColSum(RowsWith(frame, "CustomerName", names[k]), "ItemTotal")
    IN  [k \in 1..Len(names) |->
            [CustomerName |-> names[k], ItemTotal |-> total(k),
             CustomerType |-> classify_customer(total(k))]]

\* the "Customer Type" a left merge on "Customer Name" gives a row
MergedCustomerType(name, cs) ==
    IF \E k \in 1..Len(cs) : cs[k].CustomerName = name
    THEN cs[CHOOSE k \in 1..Len(cs) : cs[k].CustomerName = name].CustomerType
    ELSE NaN

\* lines 7-69: the frame df every view reads
TransactionTable(raw) ==
    LET frame == Normalize3(raw)
        cs == customer_summary(frame)
    IN  [i \in 1..Len(frame) |->
            TableRow3(frame[i],
                      ProductCategory(frame[i].ItemName),
                      MergedCustomerType(frame[i].CustomerName, cs),
                      strftime_b_y(frame[i].ChallanDate))]

\* sorted(df["Product Category"].unique())
product_types(frame) == Values(frame, "ProductCategory")

\* sorted(df["Customer Type"].dropna().unique())
customer_types(frame) == Values(frame, "CustomerType") \ {NaN}

\* what the user may type into "Search Product Name"
SearchInputs == {"", " Sim", "captain (100 ml)", "("}

\* st.text_input(...).strip().lower()
SearchTerm(input) == py_lower(py_strip(input))

-----------------------------------------------------------------------------
(* streamlit_app_3.py: the filters *)

\* lines 89-94 raise: re.compile rejects the search term
FilterRaises3(term) == term # "" /\ ~RegexCompiles(Spell[term])

\* the mutation: the customer types are computed again from the rows kept
filtered_df_retiered(frame, product_type, cust_type, term) ==
    LET f1 == IF product_type # All
              THEN RowsWith(frame, "ProductCategory", product_type) ELSE frame
        f2 == IF cust_type # All THEN RowsWith(f1, "CustomerType", cust_type) ELSE f1
        f3 == IF term # ""
              THEN SelectSeq(f2, LAMBDA r : str_contains_nocase(r.ItemName, term))
              ELSE f2
        cs == customer_summary(f3)
    IN  [i \in 1..Len(f3) |->
            [f3[i] EXCEPT !.CustomerType = MergedCustomerType(f3[i].CustomerName, cs)]]

\* lines 88-94: filtered_df
filtered_df_of(frame, product_type, cust_type, term) ==
    LET f1 == IF product_type # All
              THEN RowsWith(frame, "ProductCategory", product_type) ELSE frame
        f2 == IF cust_type # All THEN RowsWith(f1, "CustomerType", cust_type) ELSE f1
        f3 == IF term # ""
              THEN SelectSeq(f2, LAMBDA r : str_contains_nocase(r.ItemName, term))
              ELSE f2
    IN  f3

-----------------------------------------------------------------------------
(* streamlit_app_3.py: the quantity pivot *)

\* the order of the (category, item) index of a groupby
PairLess(a, b) == StrLess(a[1], b[1]) \/ (a[1] = b[1] /\ StrLess(a[2], b[2]))

SortPairs(S) ==
    [k \in 1..Cardinality(S) |->
        CHOOSE x \in S : Cardinality({y \in S : PairLess(y, x)}) = k - 1]

\* line 97: groupby([category, item, month])["QuantityOrdered"].sum().unstack(fill_value=0);
\* a row whose item or month is missing is in no group; unstack sorts the labels
pivot_groupby(frame) ==
    LET rows == SelectSeq(frame, LAMBDA r : r.ItemName # NaN /\ r.Month # NaN)
        keys == {<< rows[i].ProductCategory, rows[i].ItemName >> : i \in 1..Len(rows)}
        months == Values(rows, "Month")
        cell(key, m) ==
            ColSum(SelectSeq(rows, LAMBDA r : /\ r.ProductCategory = key[1]
                                              /\ r.ItemName = key[2]
                                              /\ r.Month = m),
                   "QuantityOrdered")
    IN  [index |-> SortPairs(keys),
         columns |-> SortStrings(months),
         values |-> [key \in keys |-> [m \in months |-> cell(key, m)]]]

\* line 101: filtered_df.groupby("Item Name")["Item Total"].sum(), one item
item_total(frame, item) == ColSum(RowsWith(frame, "ItemName", item), "ItemTotal")

\* lines 97-102: the pivot with its "Total Qty" and "Total Cost" columns
pivot_qty_of(frame) ==
    LET pv == pivot_groupby(frame)
        keys == DOMAIN pv.values
    IN  [index |-> pv.index,
         columns |-> pv.columns,
         values |-> pv.values,
         TotalQty |-> [key \in keys |->
                          SumInts([j \in 1..Len(pv.columns) |->
                                      pv.values[key][pv.columns[j]]])],
         TotalCost |-> [key \in keys |-> item_total(frame, key[2])]]

\* the currency sign "₹" that opens an amount
RupeeSign == "Rs"

RECURSIVE DigitsOf(_)
DigitsOf(n) ==
    IF n < 10 THEN << DigitChar[n + 1] >>
    ELSE DigitsOf(n \div 10) \o << DigitChar[(n % 10) + 1] >>

RECURSIVE GroupThousands(_)
GroupThousands(q) ==
    IF Len(q) <= 3 THEN q
    ELSE GroupThousands(SubSeq(q, 1, Len(q) - 3)) \o << "," >>
         \o SubSeq(q, Len(q) - 2, Len(q))

\* f"₹{x:,.0f}" for a whole amount
format_rupees(x) ==
    << RupeeSign >> \o (IF x < 0 THEN << "-" >> \o GroupThousands(DigitsOf(0 - x))
                        ELSE GroupThousands(DigitsOf(x)))

\* lines 105-108: zero cells shown blank, "Total Cost" as a currency text
display_table_of(pv) ==
    [index |-> pv.index,
     columns |-> pv.columns,
     values |-> [key \in DOMAIN pv.values |->
                    [m \in DOMAIN pv.values[key] |->
                        IF pv.values[key][m] = 0 THEN "" ELSE pv.values[key][m]]],
     TotalQty |-> pv.TotalQty,
     TotalCost |-> [key \in DOMAIN pv.TotalCost |-> format_rupees(pv.TotalCost[key])]]

\* lines 129-131: the totals row under the pivot
pivot_summary_of(pv) ==
    [months |-> [m \in {pv.columns[j] : j \in 1..Len(pv.columns)} |->
                    SumInts([k \in 1..Len(pv.index) |-> pv.values[pv.index[k]][m]])],
     TotalQty |-> SumInts([k \in 1..Len(pv.index) |-> pv.TotalQty[pv.index[k]]]),
     TotalCost |-> format_rupees(
                      SumInts([k \in 1..Len(pv.index) |-> pv.TotalCost[pv.index[k]]]))]

-----------------------------------------------------------------------------
(* streamlit_app_3.py: the heatmaps *)

\* lines 137-146: the table without "Other Bulk Orders", filtered again
heatmap_rows(frame, product_type, cust_type, term) ==
    filtered_df_of(SelectSeq(frame, LAMBDA r : r.ProductCategory # "Other Bulk Orders"),
                   product_type, cust_type, term)

\* lines 148-149: "Month" formatted again, a missing item named "Unknown Item"
heatmap_columns(frame) ==
    [i \in 1..Len(frame) |->
        [frame[i] EXCEPT !.Month = strftime_b_y(frame[i].ChallanDate),
                         !.ItemName = fillna(@, "Unknown Item")]]

\* the mutation: lines 148-149 write the columns of df
HeatmapAssignTarget_df == "df"

\* the frame whose columns lines 148-149 assign
HeatmapAssignTarget == "heatmap_data"

\* line 158: the month labels in the order of the dates they name
MonthLabelEarlier(a, b) == DateLess(strptime_b_y(a), strptime_b_y(b))

SortMonthLabels(S) ==
    [k \in 1..Cardinality(S) |->
        CHOOSE x \in S : Cardinality({y \in S : MonthLabelEarlier(y, x)}) = k - 1]

\* lines 152-158: one customer type's item x month matrix
heatmap_pivot(frame, cust_type) ==
    LET sub_df == RowsWith(frame, "CustomerType", cust_type)
        rows == SelectSeq(sub_df, LAMBDA r : r.Month # NaN)
        items == Values(rows, "ItemName")
        months == Values(rows, "Month")
        cell(item, m) ==
            ColSum(SelectSeq(rows, LAMBDA r : r.ItemName = item /\ r.Month = m),
                   "QuantityOrdered")
        rowsum(item) ==
            ColSum(SelectSeq(rows, LAMBDA r : r.ItemName = item), "QuantityOrdered")
        kept == {item \in items : rowsum(item) > 0}
    IN  [index |-> SortStrings(kept),
         columns |-> SortMonthLabels(months),
         values |-> [item \in kept |-> [m \in months |-> cell(item, m)]]]

\* lines 151-183: a heatmap for every customer type that has rows
heatmaps_of(frame) ==
    [t \in {u \in Tiers : RowsWith(frame, "CustomerType", u) # << >>} |->
        heatmap_pivot(frame, t)]

-----------------------------------------------------------------------------
(* streamlit_app_3.py: one run of the script after another *)

NoFrame == << >>

NoPivot == [index |-> << >>, columns |-> << >>, values |-> << >>,
            TotalQty |-> << >>, TotalCost |-> << >>]

Init3 ==
    /\ csv \in Datasets
    /\ pc = "start"
    /\ raised = ""
    /\ df = NoFrame
    /\ selected_product_type = All
    /\ selected_customer_type = All
    /\ search_term = ""
    /\ filtered_df = NoFrame
    /\ pivot_qty = NoPivot
    /\ display_table = NoPivot
    /\ pivot_summary = << >>
    /\ heatmap_data = NoFrame
    /\ heatmaps = << >>
    /\ IdlePure /\ Idle1 /\ Idle2

\* lines 6-85: the script starts (again) with nothing but the file and the
\* widgets' values: it loads the table and reads the widgets
Run3 ==
    /\ pc \in {"start", "done", "error"}
    /\ IF LoadRaises3(csv)
       THEN /\ pc' = "error"
            /\ raised' = "AttributeError"
            /\ df' = NoFrame
            /\ UNCHANGED << selected_product_type, selected_customer_type,
                            search_term >>
       ELSE /\ df' = TransactionTable(csv)
            /\ raised' = ""
            /\ selected_product_type' \in {All} \cup product_types(df')
            /\ selected_customer_type' \in {All} \cup customer_types(df')
            /\ \E input \in SearchInputs : search_term' = SearchTerm(input)
            /\ pc' = "filters"
    /\ filtered_df' = NoFrame
    /\ pivot_qty' = NoPivot
    /\ display_table' = NoPivot
    /\ pivot_summary' = << >>
    /\ heatmap_data' = NoFrame
    /\ heatmaps' = << >>
    /\ UNCHANGED << csv, pureVars, app1Vars, app2Vars >>

\* lines 88-94
ApplyFilters3 ==
    /\ pc = "filters"
    /\ IF FilterRaises3(search_term)
       THEN pc' = "error" /\ raised' = "re.error" /\ UNCHANGED filtered_df
       ELSE /\ filtered_df' = filtered_df_of(df, selected_product_type,
                                             selected_customer_type, search_term)
            /\ pc' = "pivot"
            /\ UNCHANGED raised
    /\ UNCHANGED << csv, df, selected_product_type, selected_customer_type,
                    search_term, pivot_qty, display_table, pivot_summary,
                    heatmap_data, heatmaps, pureVars, app1Vars, app2Vars >>

\* lines 97-132
QuantityPivot3 ==
    /\ pc = "pivot"
    /\ pivot_qty' = pivot_qty_of(filtered_df)
    /\ display_table' = display_table_of(pivot_qty')
    /\ pivot_summary' = pivot_summary_of(pivot_qty')
    /\ pc' = "heatmap"
    /\ UNCHANGED << csv, raised, df, selected_product_type, selected_customer_type,
                    search_term, filtered_df, heatmap_data, heatmaps, pureVars,
                    app1Vars, app2Vars >>

\* lines 137-183
Heatmaps3 ==
    /\ pc = "heatmap"
    /\ LET frames == [df |-> df,
                      heatmap_data |-> heatmap_rows(df, selected_product_type,
                                                    selected_customer_type, search_term)]
           after == [frames EXCEPT ![HeatmapAssignTarget] = heatmap_columns(@)]
       IN  /\ df' = after.df
           /\ heatmap_data' = after.heatmap_data
           /\ heatmaps' = heatmaps_of(after.heatmap_data)
    /\ pc' = "done"
    /\ UNCHANGED << csv, raised, selected_product_type, selected_customer_type,
                    search_term, filtered_df, pivot_qty, display_table,
                    pivot_summary, pureVars, app1Vars, app2Vars >>

Next3 == Run3 \/ ApplyFilters3 \/ QuantityPivot3 \/ Heatmaps3

SpecTimeline == Init3 /\ [][Next3]_vars

-----------------------------------------------------------------------------
(* streamlit_app.py: the dealer dashboard *)

TableRow1(r, date, month, cat) ==
    [DeliveryChallanNumber |-> r.DeliveryChallanNumber, ChallanDate |-> date,
     CustomerName |-> str_strip(r.CustomerName), ItemName |-> str_lower(r.ItemName),
     QuantityOrdered |-> r.QuantityOrdered, ItemTotal |-> r.ItemTotal,
     Month |-> month, Category |-> cat]

\* line 10 raises: pd.to_datetime meets a text that is no date
DateRaises1(raw) == \E i \in 1..Len(raw) : to_datetime(raw[i].ChallanDate) = NotADate

\* lines 12-13 raise when a name column holds no string at all
StrRaises1(raw) == HasNoStr(raw, "ItemName") \/ HasNoStr(raw, "CustomerName")

\* lines 10-56: the frame df
DealerTable(raw) ==
    [i \in 1..Len(raw) |->
        TableRow1(raw[i],
                  to_datetime(raw[i].ChallanDate),
                  period_M_str(to_datetime(raw[i].ChallanDate)),
                  ProductCategory(str_lower(raw[i].ItemName)))]

\* Series.nunique() of a column of numbers
NUnique(frame, c) == Cardinality(Values(frame, c))

\* lines 68-71: one row per customer name, in sorted order
dealer_groups(frame) ==
    LET names == SortStrings(GroupKeys(frame, "CustomerName"))
        rows(k) == RowsWith(frame, "CustomerName", names[k])
    IN  [k \in 1..Len(names) |->
            [CustomerName |-> names[k],
             TotalSales |-> ColSum(rows(k), "ItemTotal"),
             TotalOrders |-> NUnique(rows(k), "DeliveryChallanNumber")]]

\* the frames with the rows of frame in another order
Reorderings(frame) ==
    LET n == Len(frame)
        perms == {f \in [1..n -> 1..n] : \A i, j \in 1..n : f[i] = f[j] => i = j}
    IN  {[i \in 1..n |-> frame[f[i]]] : f \in perms}

IsDescending(frame, c) ==
    \A i \in 1..(Len(frame) - 1) : frame[i][c] >= frame[i + 1][c]

\* line 73: sort_values(by="Total Sales", ascending=False) with the default
\* kind="quicksort", which is not stable: rows with equal Total Sales come out
\* in whatever order the sorting routine of the build leaves them
sort_values_descending(frame, c) ==
    {g \in Reorderings(frame) : IsDescending(g, c)}

\* what the user may type into "Search Dealer by Name"
DealerSearchInputs == {"", " A", "("}

\* line 81 raises: re.compile rejects the search text
SearchRaises1(text) == ~RegexCompiles(Spell[text])

\* line 81: dealer_stats[dealer_stats["Customer Name"].str.lower().str.contains(search)]
filtered_dealers_of(stats, text) ==
    SelectSeq(stats, LAMBDA d : str_contains(py_lower(d.CustomerName), text))

\* a percentage: a number of tenths of a percent, or what a float division by
\* zero gives
PctNumber(t) == [kind |-> "number", tenths |-> t]

PctNaN == [kind |-> "nan", tenths |-> 0]

PctInf == [kind |-> "inf", tenths |-> 0]

PctNegInf == [kind |-> "-inf", tenths |-> 0]

\* num / den rounded to the nearest integer, a tie to the even one (den > 0)
RoundHalfEven(num, den) ==
    LET q == num \div den
        r == num % den
    IN  IF 2 * r < den THEN q
        ELSE IF 2 * r > den THEN q + 1
        ELSE IF q % 2 = 0 THEN q ELSE q + 1

\* line 98: (part / total * 100).round(1) in float arithmetic: 0/0 is NaN and
\* x/0 is an infinity, nothing is raised
share_percent(part, total) ==
    IF total = 0
    THEN (IF part = 0 THEN PctNaN ELSE IF part > 0 THEN PctInf ELSE PctNegInf)
    ELSE IF total > 0 THEN PctNumber(RoundHalfEven(1000 * part, total))
    ELSE PctNumber(RoundHalfEven(0 - 1000 * part, 0 - total))

\* lines 91-98: the category shares of one customer
category_share_of(frame, customer) ==
    LET customer_data == RowsWith(frame, "CustomerName", customer)
        cats == Values(customer_data, "Category")
        part(c) == ColSum(RowsWith(customer_data, "Category", c), "ItemTotal")
        total == SumInts([k \in 1..Cardinality(cats) |-> part(SortStrings(cats)[k])])
    IN  [c \in cats |-> [ItemTotal |-> part(c), pct |-> share_percent(part(c), total)]]

\* lines 130-133: Item Total by (month, category) for one customer
monthly_sales_of(frame, customer) ==
    LET customer_data == RowsWith(frame, "CustomerName", customer)
        keys == {<< customer_data[i].Month, customer_data[i].Category >> :
                    i \in 1..Len(customer_data)}
    IN  [key \in keys |->
            ColSum(SelectSeq(customer_data,
                             LAMBDA r : r.Month = key[1] /\ r.Category = key[2]),
                   "ItemTotal")]

\* lines 134-137: Item Total by month for one customer
monthly_totals_of(frame, customer) ==
    LET customer_data == RowsWith(frame, "CustomerName", customer)
    IN  [m \in Values(customer_data, "Month") |->
            ColSum(RowsWith(customer_data, "Month", m), "ItemTotal")]

Init1 ==
    /\ csv \in Datasets
    /\ pc = "start"
    /\ raised = ""
    /\ df = NoFrame
    /\ dealer_stats = NoFrame
    /\ search = ""
    /\ filtered_dealers = NoFrame
    /\ category_share = << >>
    /\ monthly_sales = << >>
    /\ monthly_totals = << >>
    /\ IdlePure /\ Idle3 /\ Idle2

\* lines 7-80: the script starts (again) with nothing but the file and the
\* search box: it loads the table, builds and sorts dealer_stats, reads the box
Run1 ==
    /\ pc \in {"start", "done", "error"}
    /\ filtered_dealers' = NoFrame
    /\ category_share' = << >>
    /\ monthly_sales' = << >>
    /\ monthly_totals' = << >>
    /\ IF DateRaises1(csv) \/ StrRaises1(csv)
       THEN /\ pc' = "error"
            /\ raised' = (IF DateRaises1(csv) THEN "ValueError" ELSE "AttributeError")
            /\ df' = NoFrame
            /\ dealer_stats' = NoFrame
            /\ UNCHANGED search
       ELSE /\ df' = DealerTable(csv)
            /\ dealer_stats' \in sort_values_descending(dealer_groups(df'), "TotalSales")
            /\ \E input \in DealerSearchInputs : search' = SearchTerm(input)
            /\ raised' = ""
            /\ pc' = "search"
    /\ UNCHANGED << csv, pureVars, app3Vars, app2Vars >>

\* line 81
FilterDealers1 ==
    /\ pc = "search"
    /\ IF SearchRaises1(search)
       THEN pc' = "error" /\ raised' = "re.error" /\ UNCHANGED filtered_dealers
       ELSE /\ filtered_dealers' = filtered_dealers_of(dealer_stats, search)
            /\ pc' = "rows"
            /\ UNCHANGED raised
    /\ UNCHANGED << csv, df, dealer_stats, search, category_share, monthly_sales,
                    monthly_totals, pureVars, app3Vars, app2Vars >>

\* lines 83-156: the loop over the dealers found
DealerRows1 ==
    /\ pc = "rows"
    /\ LET found == Values(filtered_dealers, "CustomerName")
       IN  /\ category_share' = [c \in found |-> category_share_of(df, c)]
           /\ monthly_sales' = [c \in found |-> monthly_sales_of(df, c)]
           /\ monthly_totals' = [c \in found |-> monthly_totals_of(df, c)]
    /\ pc' = "done"
    /\ UNCHANGED << csv, raised, df, dealer_stats, search, filtered_dealers,
                    pureVars, app3Vars, app2Vars >>

Next1 == Run1 \/ FilterDealers1 \/ DealerRows1

SpecDealer == Init1 /\ [][Next1]_vars

-----------------------------------------------------------------------------
(* streamlit_app_2.py: the dealer summary table *)

TableRow2(r, cat) ==
    [DeliveryChallanNumber |-> r.DeliveryChallanNumber, ChallanDate |-> r.ChallanDate,
     CustomerName |-> str_strip(r.CustomerName), ItemName |-> str_lower(r.ItemName),
     QuantityOrdered |-> r.QuantityOrdered, ItemTotal |-> r.ItemTotal,
     Category |-> cat]

\* lines 6-7 raise when a name column holds no string at all
LoadRaises2(raw) == HasNoStr(raw, "ItemName") \/ HasNoStr(raw, "CustomerName")

\* lines 5-51: the frame df
SummaryTable(raw) ==
    [i \in 1..Len(raw) |-> TableRow2(raw[i], ProductCategory(str_lower(raw[i].ItemName)))]

\* line 62
category_list == category_keys \o << Uncategorized >>

\* classify_customer without its final else branch: no tier for a small amount
classify_customer_2_noelse(amt) ==
    IF amt > 1000000 THEN "Gold"
    ELSE IF amt > 500000 THEN "Silver"
    ELSE IF amt > 100000 THEN "Bronze"
    ELSE NaN

\* def classify_customer(amount), lines 79-87
classify_customer_2(amt) ==
    IF amt > 1000000 THEN "Gold"
    ELSE IF amt > 500000 THEN "Silver"
    ELSE IF amt > 100000 THEN "Bronze"
    ELSE "Copper"

\* Series.replace(0, 1), one value
replace_0_1(x) == IF x = 0 THEN 1 ELSE x

\* part / total * 100 in tenths of a percent, as "{p:.1f}" shows it (total # 0)
percent_tenths(part, total) ==
    IF total > 0 THEN RoundHalfEven(1000 * part, total)
    ELSE RoundHalfEven(0 - 1000 * part, 0 - total)

Dash == [amount |-> << "-" >>, pct |-> 0]

\* lines 66-74 and line 147: f"₹{a:,.0f} ({p:.1f}%)" if a > 0 else "-"
category_cell(a, p) ==
    IF a > 0 THEN [amount |-> format_rupees(a), pct |-> p] ELSE Dash

\* lines 54-89: one row per customer name, in sorted order, with a cell per
\* category and the customer type
summary_of(frame) ==
    LET names == SortStrings(GroupKeys(frame, "CustomerName"))
        rows(k) == RowsWith(frame, "CustomerName", names[k])
        total(k) == ColSum(rows(k), "ItemTotal")
        amt_full(k, cat) == ColSum(RowsWith(rows(k), "Category", cat), "ItemTotal")
    IN  [k \in 1..Len(names) |->
            [CustomerName |-> names[k],
             TotalOrders |-> NUnique(rows(k), "DeliveryChallanNumber"),
             TotalOrderAmount |-> total(k),
             cells |-> [j \in 1..Len(category_list) |->
                          category_cell(amt_full(k, category_list[j]),
                                        percent_tenths(amt_full(k, category_list[j]),
                                                       replace_0_1(total(k))))],
             CustomerType |-> classify_customer_2(total(k))]]

\* line 95
types == << All, "Gold", "Silver", "Bronze", "Copper" >>

\* lines 102-106
filtered_of(frame, type, customer) ==
    LET f1 == IF type # All THEN RowsWith(frame, "CustomerType", type) ELSE frame
    IN  IF customer # All THEN RowsWith(f1, "CustomerName", customer) ELSE f1

RECURSIVE DigitsValue(_)
DigitsValue(q) ==
    IF q = << >> THEN 0
    ELSE 10 * DigitsValue(SubSeq(q, 1, Len(q) - 1)) + DigitVal(q[Len(q)])

\* lines 138-142: the amount read back from a cell's text; float("-") raises
\* and the except clause answers 0
extract_amount(cell) ==
    LET text == SelectSeq(cell.amount, LAMBDA ch : ch \notin {RupeeSign, ","})
    IN  IF text = << "-" >> THEN 0
        ELSE IF text[1] = "-" THEN 0 - DigitsValue(Tail(text))
        ELSE DigitsValue(text)

NoRow == << >>

\* lines 127-151: the totals row, when a row is left
total_row_of(frame) ==
    IF frame = << >> THEN NoRow
    ELSE LET total_amt == ColSum(frame, "TotalOrderAmount")
             total_cat_amt(j) ==
                SumInts([k \in 1..Len(frame) |-> extract_amount(frame[k].cells[j])])
         IN  [CustomerName |-> "Total",
              TotalOrders |-> ColSum(frame, "TotalOrders"),
              TotalOrderAmount |-> total_amt,
              CustomerType |-> "-",
              cells |-> [j \in 1..Len(category_list) |->
                           category_cell(total_cat_amt(j),
                                         IF total_amt # 0
                                         THEN percent_tenths(total_cat_amt(j), total_amt)
                                         ELSE 0)]]

\* f"₹{x:,.2f}" for a whole amount
format_rupees_2f(x) == format_rupees(x) \o << ".", "0", "0" >>

\* lines 155-163: one row per customer type that has a customer, in sorted order
type_summary_of(frame) ==
    LET found == SortStrings(GroupKeys(frame, "CustomerType"))
        rows(k) == RowsWith(frame, "CustomerType", found[k])
    IN  [k \in 1..Len(found) |->
            [CustomerType |-> found[k],
             NoOfCustomers |-> Cardinality(Values(rows(k), "CustomerName")),
             TotalNoOfOrders |-> ColSum(rows(k), "TotalOrders"),
             TotalAmountOfOrder |-> format_rupees_2f(ColSum(rows(k), "TotalOrderAmount"))]]

Init2 ==
    /\ csv \in Datasets
    /\ pc = "start"
    /\ raised = ""
    /\ df = NoFrame
    /\ summary = NoFrame
    /\ selected_type = All
    /\ selected_customer = All
    /\ filtered = NoFrame
    /\ total_row = NoRow
    /\ type_summary = NoFrame
    /\ IdlePure /\ Idle3 /\ Idle1

\* lines 5-99: the script starts (again) with nothing but the file and the
\* widgets' values: it loads the table, builds summary and reads the widgets
Run2 ==
    /\ pc \in {"start", "done", "error"}
    /\ filtered' = NoFrame
    /\ total_row' = NoRow
    /\ type_summary' = NoFrame
    /\ IF LoadRaises2(csv)
       THEN /\ pc' = "error"
            /\ raised' = "AttributeError"
            /\ df' = NoFrame
            /\ summary' = NoFrame
            /\ UNCHANGED << selected_type, selected_customer >>
       ELSE /\ df' = SummaryTable(csv)
            /\ summary' = summary_of(df')
            /\ selected_type' \in {types[k] : k \in 1..Len(types)}
            /\ selected_customer' \in {All} \cup Values(summary', "CustomerName")
            /\ raised' = ""
            /\ pc' = "filter"
    /\ UNCHANGED << csv, pureVars, app3Vars, app1Vars >>

\* lines 102-124
Filter2 ==
    /\ pc = "filter"
    /\ filtered' = filtered_of(summary, selected_type, selected_customer)
    /\ pc' = "totals"
    /\ UNCHANGED << csv, raised, df, summary, selected_type, selected_customer,
                    total_row, type_summary, pureVars, app3Vars, app1Vars >>

\* lines 127-151
Totals2 ==
    /\ pc = "totals"
    /\ total_row' = total_row_of(filtered)
    /\ pc' = "types"
    /\ UNCHANGED << csv, raised, df, summary, selected_type, selected_customer,
                    filtered, type_summary, pureVars, app3Vars, app1Vars >>

\* lines 155-164
TypeSummary2 ==
    /\ pc = "types"
    /\ type_summary' = type_summary_of(summary)
    /\ pc' = "done"
    /\ UNCHANGED << csv, raised, df, summary, selected_type, selected_customer,
                    filtered, total_row, pureVars, app3Vars, app1Vars >>

Next2 == Run2 \/ Filter2 \/ Totals2 \/ TypeSummary2

SpecSummary == Init2 /\ [][Next2]_vars

-----------------------------------------------------------------------------
(* Claims about the classifiers *)

\* C1: for every spend amount s, classify_customer(s) is Gold iff s > 1,000,000,
\* Silver iff 500,000 < s <= 1,000,000, Bronze iff 100,000 < s <= 500,000 and
\* Copper iff s <= 100,000 (s <= 0 included); it always returns one of the four.
\* The classify_customer of streamlit_app_2.py answers the same.
C1_TierThresholds ==
    customer_type # Pending =>
        /\ customer_type \in Tiers
        /\ classify_customer_2(amount) = customer_type
        /\ (customer_type = "Gold") <=> (amount > 1000000)
        /\ (customer_type = "Silver") <=> (500000 < amount /\ amount <= 1000000)
        /\ (customer_type = "Bronze") <=> (100000 < amount /\ amount <= 500000)
        /\ (customer_type = "Copper") <=> (amount <= 100000)

\* an amount exactly on the Gold threshold has been classified, as Silver
C1_Witness == amount = 1000000 /\ customer_type = "Silver"

\* the categories a normalized name is listed under in category_map
ListedUnder(name) ==
    {c \in DOMAIN category_map :
        \E i \in 1..Len(category_map[c]) : category_map[c][i] = name}

\* C2: a listed item name gets the category it is listed under, every other name
\* (a near-miss with an extra space or a typo too) gets "Uncategorized"; the
\* category is never null.
C2_CategoryLookup ==
    category # Pending =>
        /\ category # NaN
        /\ \A c \in ListedUnder(item_name) : category = c
        /\ ListedUnder(item_name) = {} => category = Uncategorized

\* a near-miss of a listed name (a trailing blank) has been classified
C2_Witness == item_name = "simba " /\ category = Uncategorized

-----------------------------------------------------------------------------
(* Claims about the product quantity timeline (streamlit_app_3.py) *)

\* no category, customer type or product name is selected
Unfiltered3 ==
    selected_product_type = All /\ selected_customer_type = All /\ search_term = ""

PivotComputed3 == pc \in {"heatmap", "done"}

\* C4: with no filter selected, the month cells of the quantity pivot (and its
\* Total Qty column) add up to the QuantityOrdered of every row of the dataset,
\* rows whose date could not be parsed included.
C4_PivotSumsAllQuantity ==
    (PivotComputed3 /\ Unfiltered3) =>
        /\ SumInts([k \in 1..Len(pivot_qty.index) |->
                      SumInts([j \in 1..Len(pivot_qty.columns) |->
                                 pivot_qty.values[pivot_qty.index[k]][pivot_qty.columns[j]]])])
             = ColSum(csv, "QuantityOrdered")
        /\ SumInts([k \in 1..Len(pivot_qty.index) |-> pivot_qty.TotalQty[pivot_qty.index[k]]])
             = ColSum(csv, "QuantityOrdered")

\* text holds term as a substring, letter case ignored
ContainsIgnoreCase(text, term) ==
    \E off \in 0..(Len(text) - Len(term)) :
        \A i \in 1..Len(term) : LowerChar(text[off + i]) = LowerChar(term[i])

\* the row meets every criterion the three widgets select
MeetsEveryCriterion3(r) ==
    /\ selected_product_type # All => r.ProductCategory = selected_product_type
    /\ selected_customer_type # All => r.CustomerType = selected_customer_type
    /\ search_term # "" =>
          (r.ItemName # NaN /\ ContainsIgnoreCase(Spell[r.ItemName], Spell[search_term]))

\* C6: the filters combine with AND: for every selected category, customer type
\* and search string the script filters, and filtered_df is exactly the rows of
\* df that meet every selected criterion; "All" and the empty search keep all.
C6_FiltersAreConjunction ==
    /\ raised # "re.error"
    /\ pc \in {"pivot", "heatmap", "done"} =>
          filtered_df = SelectSeq(df, MeetsEveryCriterion3)

\* the Item Total of every row of the full table df that names the customer
UnfilteredTotal(name) == ColSum(RowsWith(df, "CustomerName", name), "ItemTotal")

\* C7: whatever filters are applied, every row of a customer carries the same
\* customer type, classify_customer of the customer's total over the full
\* dataset, never of the total over the filtered rows.
C7_TierFromFullDataset ==
    \A frame \in {df, filtered_df, heatmap_data} :
        \A i \in 1..Len(frame) :
            frame[i].CustomerName # NaN =>
                frame[i].CustomerType = classify_customer(UnfilteredTotal(frame[i].CustomerName))

\* a filter has kept only part of a customer's rows, and the rows kept alone
\* would put the customer in another tier
C7_Witness ==
    /\ pc = "done"
    /\ \E i \in 1..Len(filtered_df) :
          /\ filtered_df[i].CustomerName # NaN
          /\ classify_customer(ColSum(RowsWith(filtered_df, "CustomerName",
                                               filtered_df[i].CustomerName), "ItemTotal"))
               # filtered_df[i].CustomerType

\* C9: once the table df is built, no filter selection and no view computation
\* (filtering, quantity pivot, display formatting, heatmap preparation, a rerun
\* of the script on the same file) changes its rows or field values.
C9_TableNeverMutated == [][pc # "start" => df' = df]_vars

\* the heatmap preparation has rewritten the item of a row in its own frame,
\* under a selected filter, and the script has run to its end
C9_Witness ==
    /\ pc = "done"
    /\ selected_product_type # All
    /\ \E i \in 1..Len(df) : df[i].ItemName = NaN
    /\ \E i \in 1..Len(heatmap_data) : heatmap_data[i].ItemName = "Unknown Item"

-----------------------------------------------------------------------------
(* Claims about the dealer dashboard (streamlit_app.py) *)

StatsComputed1 == pc \in {"search", "rows", "done"}

\* C3: the Total Sales of all rows of the dealer summary add up to the Item
\* Total of every row of the unfiltered dataset: the grouping by customer loses
\* no transaction row and counts none twice.
C3_DealerTotalsCoverDataset ==
    StatsComputed1 => ColSum(dealer_stats, "TotalSales") = ColSum(csv, "ItemTotal")

\* C5: the category share of a customer whose total Item Total is zero is 0%
\* for every category, never a not-a-number value.
C5_ZeroTotalSharesAreZero ==
    pc = "done" =>
        \A k \in 1..Len(filtered_dealers) :
            filtered_dealers[k].TotalSales = 0 =>
                \A c \in DOMAIN category_share[filtered_dealers[k].CustomerName] :
                    category_share[filtered_dealers[k].CustomerName][c].pct = PctNumber(0)

\* the file holds a row whose Challan Date is a text that is no date
HasUnparseableDate == \E i \in 1..Len(csv) : to_datetime(csv[i].ChallanDate) = NotADate

\* C8: a row whose Challan Date cannot be parsed never makes the pipeline fail;
\* the row has no month and still counts in the totals that need none, such as
\* the dealers' Total Sales.
C8_UnparseableDateNeverFatal ==
    /\ raised # "ValueError"
    /\ (StatsComputed1 /\ HasUnparseableDate) =>
          \A k \in 1..Len(dealer_stats) :
              dealer_stats[k].TotalSales =
                  ColSum(SelectSeq(csv, LAMBDA r : /\ r.CustomerName # NaN
                                                   /\ py_strip(r.CustomerName)
                                                        = dealer_stats[k].CustomerName),
                         "ItemTotal")

\* C10: the dealer summary is in descending order of Total Sales, and two
\* dealers with equal Total Sales are in ascending order of customer name.
C10_DealerOrder ==
    StatsComputed1 =>
        \A i \in 1..(Len(dealer_stats) - 1) :
            \/ dealer_stats[i].TotalSales > dealer_stats[i + 1].TotalSales
            \/ /\ dealer_stats[i].TotalSales = dealer_stats[i + 1].TotalSales
               /\ StrLess(dealer_stats[i].CustomerName, dealer_stats[i + 1].CustomerName)

-----------------------------------------------------------------------------
(* Claims about the order of the months *)

\* the calendar month (year, month) of the rows of df that carry the label
CalendarMonthOf(label) ==
    LET r == CHOOSE r \in {df[i] : i \in 1..Len(df)} : r.Month = label
    IN  << r.ChallanDate.year, r.ChallanDate.month >>

CalendarEarlier(a, b) ==
    \/ CalendarMonthOf(a)[1] < CalendarMonthOf(b)[1]
    \/ /\ CalendarMonthOf(a)[1] = CalendarMonthOf(b)[1]
       /\ CalendarMonthOf(a)[2] < CalendarMonthOf(b)[2]

\* the labels of a sequence of month columns are in calendar order
InCalendarOrder(columns) ==
    \A j, k \in 1..Len(columns) : j < k => CalendarEarlier(columns[j], columns[k])

\* C11: in every view with month columns (the quantity pivot, each heatmap
\* matrix) the months are in calendar order of the underlying date, not in the
\* string order of the label: "Dec 23" before "Jan 24" before "Feb 24".
C11_MonthsInCalendarOrder ==
    /\ PivotComputed3 => InCalendarOrder(pivot_qty.columns)
    /\ pc = "done" => \A t \in DOMAIN heatmaps : InCalendarOrder(heatmaps[t].columns)

-----------------------------------------------------------------------------
(* Claims about the summary by customer type *)

\* the amount a text of the form "Rs1,234.00" shows
AmountShown(text) ==
    DigitsValue(SelectSeq(SubSeq(text, 1, Len(text) - 3),
                          LAMBDA ch : ch \notin {RupeeSign, ","}))

TierRowsOf(name) ==
    {k \in 1..Len(type_summary) :
        \E i \in 1..Len(summary) :
            /\ summary[i].CustomerName = name
            /\ summary[i].CustomerType = type_summary[k].CustomerType}

\* C12: the summary by customer type partitions the customers of the dealer
\* summary: every customer falls in exactly one tier group, the customer counts
\* of the tiers add up to the number of distinct customers, and the order counts
\* and order amounts of the tiers add up to those of all customers.
C12_TypeSummaryPartitions ==
    pc = "done" =>
        /\ \A name \in Values(summary, "CustomerName") :
              Cardinality(TierRowsOf(name)) = 1
        /\ ColSum(type_summary, "NoOfCustomers")
              = Cardinality(Values(summary, "CustomerName"))
        /\ ColSum(type_summary, "TotalNoOfOrders") = ColSum(summary, "TotalOrders")
        /\ SumInts([k \in 1..Len(type_summary) |->
                       AmountShown(type_summary[k].TotalAmountOfOrder)])
              = ColSum(summary, "TotalOrderAmount")

\* a summary of several customers in at least two tiers, one of them Copper,
\* one tier holding more than one customer
C12_Witness ==
    /\ pc = "done"
    /\ Len(type_summary) >= 2
    /\ \E k \in 1..Len(type_summary) : type_summary[k].CustomerType = "Copper"
    /\ \E k \in 1..Len(type_summary) : type_summary[k].NoOfCustomers >= 2

=============================================================================
